---- MODULE Spec2Model ----
(***************************************************************************)
(* Extreme-point best-fit-decreasing bin packing (src/extreme_point.py).    *)
(* Coordinates and sizes are integers (Python ints are valid inputs), so    *)
(* every comparison of the source is computed exactly: a comparison with    *)
(* the tolerance 0.001 is multiplied through by 1000, and a comparison with *)
(* the cut line b*(1 - x/a) is multiplied through by a.                      *)
(***************************************************************************)
EXTENDS Integers, Sequences, FiniteSets, TLC

VARIABLES items, bins, pc, queue, open_packers, available_with_cut,
          available_no_cut, remaining_items, unplaced,
          perm_items, geom_a, geom_b, perm_pc

vars == <<items, bins, pc, queue, open_packers, available_with_cut,
          available_no_cut, remaining_items, unplaced,
          perm_items, geom_a, geom_b, perm_pc>>

run_vars == <<items, bins, pc, queue, open_packers, available_with_cut,
              available_no_cut, remaining_items, unplaced>>

perm_vars == <<perm_items, geom_a, geom_b, perm_pc>>

----------------------------------------------------------------------------
(* Bounds of the model *)

\* longest input item list
MaxItems == 3

----------------------------------------------------------------------------
(* Data classes *)

Bin(ID, length, height, cost, a, b) ==
    [ID |-> ID, length |-> length, height |-> height, cost |-> cost, a |-> a, b |-> b]

has_cut(bin) == bin.a > 0 /\ bin.b > 0

\* the cut line's y at x, as the exact fraction num/den (den > 0)
get_cut_y(bin, x) ==
    IF ~has_cut(bin) \/ x >= bin.a
    THEN [num |-> 0, den |-> 1]
    ELSE [num |-> bin.b * (bin.a - x), den |-> bin.a]

Item(ID, length, height, rotate, fragile, perishable, radioactive) ==
    [ID |-> ID, length |-> length, height |-> height, rotate |-> rotate,
     fragile |-> fragile, perishable |-> perishable, radioactive |-> radioactive]

PlacedItem(item, x, y, rotated) ==
    LET width == IF rotated THEN item.height ELSE item.length
        height == IF rotated THEN item.length ELSE item.height
    IN [item |-> item, x |-> x, y |-> y, rotated |-> rotated,
        width |-> width, height |-> height, x2 |-> x + width, y2 |-> y + height]

contains_point(pi, px, py) == pi.x < px /\ px < pi.x2 /\ pi.y < py /\ py < pi.y2

\* overlaps with self.x2 written for self.x in the second test
overlaps_wrong_edge(pi, x, y, w, h) ==
    ~(x >= pi.x2 \/ x + w <= pi.x2 \/ y >= pi.y2 \/ y + h <= pi.y)

overlaps(pi, x, y, w, h) ==
    ~(x >= pi.x2 \/ x + w <= pi.x \/ y >= pi.y2 \/ y + h <= pi.y)

Abs(v) == IF v < 0 THEN -v ELSE v

Min(u, v) == IF u < v THEN u ELSE v

Max(u, v) == IF u > v THEN u ELSE v

Range(s) == {s[i] : i \in 1..Len(s)}

----------------------------------------------------------------------------
(* BinPacker *)

_init_extreme_points(bin, pack_right_to_left) ==
    IF pack_right_to_left THEN {<<bin.length, 0>>}
    ELSE IF has_cut(bin) THEN {<<bin.a, 0>>}
    ELSE {<<0, 0>>}

BinPacker(bin, pack_right_to_left) ==
    [bin |-> bin, placed_items |-> <<>>,
     extreme_points |-> _init_extreme_points(bin, pack_right_to_left),
     pack_right_to_left |-> pack_right_to_left]

\* y < get_cut_y(x) - 0.001, times 1000 * den
_is_point_valid(p, x, y) ==
    LET c == get_cut_y(p.bin, x)
    IN /\ ~(has_cut(p.bin) /\ x < p.bin.a /\ 1000 * y * c.den < 1000 * c.num - c.den)
       /\ \A k \in 1..Len(p.placed_items) : ~contains_point(p.placed_items[k], x, y)

\* p already holds placed_item; the result is the new extreme-point set
_update_extreme_points(p, placed_item, used_ep) ==
    LET new_eps == IF p.pack_right_to_left
                   THEN {<<placed_item.x, placed_item.y>>, <<placed_item.x2, placed_item.y2>>}
                   ELSE {<<placed_item.x2, placed_item.y>>, <<placed_item.x, placed_item.y2>>}
        kept == {ep \in new_eps :
                    /\ 0 <= ep[1] /\ ep[1] <= p.bin.length
                    /\ 0 <= ep[2] /\ ep[2] < p.bin.height
                    /\ _is_point_valid(p, ep[1], ep[2])}
    IN (p.extreme_points \ {used_ep}) \cup kept

\* one corner of _check_support; 0.001 comparisons are times 1000
is_supported(p, cx, cy) ==
    IF Abs(cy) < 1
    THEN ~(has_cut(p.bin) /\ 1000 * cx < 1000 * p.bin.a - 1)
    ELSE \/ /\ has_cut(p.bin) /\ 0 <= cx /\ cx <= p.bin.a
            /\ LET c == get_cut_y(p.bin, cx)
               IN Abs(cy * c.den - c.num) < c.den
         \/ \E k \in 1..Len(p.placed_items) :
               LET pi == p.placed_items[k]
               IN /\ Abs(cy - pi.y2) < 1
                  /\ 1000 * pi.x - 1 <= 1000 * cx
                  /\ 1000 * cx <= 1000 * pi.x2 + 1

\* _check_support testing the left bottom corner only
_check_support_left_only(p, x, y, width) == is_supported(p, x, y)

_check_support(p, x, y, width) ==
    is_supported(p, x, y) /\ is_supported(p, x + width, y)

_check_fragility(p, x, y, width) ==
    \A k \in 1..Len(p.placed_items) :
        LET pi == p.placed_items[k]
        IN ~(/\ pi.item.fragile = 1
             /\ 1000 * Abs(y - pi.y2) < 1
             /\ ~(x >= pi.x2 \/ x + width <= pi.x))

\* the cut-corner test with the tolerance 0.01 for 0.001
corner_below_cut_loose(bin, cx, cy) ==
    /\ cx < bin.a /\ cy < bin.b
    /\ 1000 * (cx * bin.b + cy * bin.a) < 990 * bin.a * bin.b

\* cx / a + cy / b < 1 - 0.001, times 1000 * a * b
corner_below_cut(bin, cx, cy) ==
    /\ cx < bin.a /\ cy < bin.b
    /\ 1000 * (cx * bin.b + cy * bin.a) < 999 * bin.a * bin.b

\* the bounds check of _check_placement: x0 is the anchor, x the left edge
in_bounds(p, x0, x, y, w, h) ==
    IF p.pack_right_to_left
    THEN ~(x < 0 \/ y < 0 \/ x0 > p.bin.length \/ y + h > p.bin.height)
    ELSE ~(x0 < 0 \/ y < 0 \/ x0 + w > p.bin.length \/ y + h > p.bin.height)

\* the cut check of _check_placement: no corner below the cut line
clears_cut(p, x, y, w, h) ==
    has_cut(p.bin) =>
        \A c \in {<<x, y>>, <<x + w, y>>, <<x, y + h>>, <<x + w, y + h>>} :
            ~corner_below_cut(p.bin, c[1], c[2])

_check_placement(p, item, x0, y, rotated) ==
    LET w == IF rotated THEN item.height ELSE item.length
        h == IF rotated THEN item.length ELSE item.height
        x == IF p.pack_right_to_left THEN x0 - w ELSE x0
    IN /\ ~(rotated /\ item.rotate = 0)
       /\ in_bounds(p, x0, x, y, w, h)
       /\ clears_cut(p, x, y, w, h)
       /\ \A k \in 1..Len(p.placed_items) : ~overlaps(p.placed_items[k], x, y, w, h)
       /\ _check_support(p, x, y, w)
       /\ _check_fragility(p, x, y, w)

RECURSIVE residual_loop(_, _, _, _, _)
\* the loop of _calculate_residual_space from placed item k on, RS_x and RS_y so far
residual_loop(p, x, y, k, rs) ==
    IF k > Len(p.placed_items) THEN rs
    ELSE LET pi == p.placed_items[k]
             RS_x == IF pi.x >= x /\ pi.y < y + rs[2] /\ pi.y2 > y
                     THEN Min(rs[1], pi.x - x) ELSE rs[1]
             RS_y == IF pi.y >= y /\ pi.x < x + RS_x /\ pi.x2 > x
                     THEN Min(rs[2], pi.y - y) ELSE rs[2]
         IN residual_loop(p, x, y, k + 1, <<RS_x, RS_y>>)

_calculate_residual_space(p, x, y) ==
    LET rs == residual_loop(p, x, y, 1, <<p.bin.length - x, p.bin.height - y>>)
    IN <<Max(0, rs[1]), Max(0, rs[2])>>

NoResult == [found |-> FALSE, x |-> 0, y |-> 0, rotated |-> FALSE]

\* best_merit starts at float('inf'): inf is TRUE until a first candidate is kept
NoBest == [best |-> NoResult, best_merit |-> 0, inf |-> TRUE]

\* the comparison kept only for the first candidate
merit_improves_first_only(merit, acc) == acc.inf

\* merit < best_merit
merit_improves(merit, acc) == acc.inf \/ merit < acc.best_merit

\* one candidate of find_best_ep: keep it when it is feasible and improves the merit
try_candidate(p, item, x, y, rotated, RS, acc) ==
    LET w == IF rotated THEN item.height ELSE item.length
        h == IF rotated THEN item.length ELSE item.height
        merit == (RS[1] - w) + (RS[2] - h)
    IN IF _check_placement(p, item, x, y, rotated) /\ merit_improves(merit, acc)
       THEN [best |-> [found |-> TRUE, x |-> x, y |-> y, rotated |-> rotated],
             best_merit |-> merit, inf |-> FALSE]
       ELSE acc

RECURSIVE find_loop(_, _, _, _, _)
\* the loop of find_best_ep over the extreme points in the order the set yields them
find_loop(p, item, order, k, acc) ==
    IF k > Len(order) THEN acc
    ELSE LET x == order[k][1]
             y == order[k][2]
             RS == _calculate_residual_space(p, x, y)
             acc1 == try_candidate(p, item, x, y, FALSE, RS, acc)
             acc2 == IF item.rotate = 1
                     THEN try_candidate(p, item, x, y, TRUE, RS, acc1)
                     ELSE acc1
         IN find_loop(p, item, order, k + 1, acc2)

\* find_best_ep when the extreme-point set is iterated in the given order
find_best_ep(p, item, order) == find_loop(p, item, order, 1, NoBest).best

RECURSIVE Perms(_)
\* the orders in which an unordered set may be iterated
Perms(S) ==
    IF S = {} THEN {<<>>}
    ELSE UNION {{<<e>> \o s : s \in Perms(S \ {e})} : e \in S}

\* every result find_best_ep may return: the set's iteration order is not fixed
FindResults(p, item) == {find_best_ep(p, item, o) : o \in Perms(p.extreme_points)}

\* place_item without the conversion of a right-to-left anchor to a left edge
place_item_unconverted(p, item, x, y, rotated) ==
    LET placed == PlacedItem(item, x, y, rotated)
        p1 == [p EXCEPT !.placed_items = Append(@, placed)]
    IN [p1 EXCEPT !.extreme_points = _update_extreme_points(p1, placed, <<x, y>>)]

place_item(p, item, x, y, rotated) ==
    LET w == IF rotated THEN item.height ELSE item.length
        placed == IF p.pack_right_to_left
                  THEN PlacedItem(item, x - w, y, rotated)
                  ELSE PlacedItem(item, x, y, rotated)
        p1 == [p EXCEPT !.placed_items = Append(@, placed)]
    IN [p1 EXCEPT !.extreme_points = _update_extreme_points(p1, placed, <<x, y>>)]

\* check_compatibility without its second test
check_compatibility_one_way(p, item) ==
    LET has_radioactive == \E k \in 1..Len(p.placed_items) :
                              p.placed_items[k].item.radioactive = 1
    IN ~(item.perishable = 1 /\ has_radioactive)

check_compatibility(p, item) ==
    LET has_perishable == \E k \in 1..Len(p.placed_items) :
                              p.placed_items[k].item.perishable = 1
        has_radioactive == \E k \in 1..Len(p.placed_items) :
                              p.placed_items[k].item.radioactive = 1
    IN /\ ~(item.perishable = 1 /\ has_radioactive)
       /\ ~(item.radioactive = 1 /\ has_perishable)

----------------------------------------------------------------------------
(* run_packing *)

area(o) == o.length * o.height

RECURSIVE insert_by_area(_, _)
\* put item x, which preceded every element of the sorted s, where the stable
\* descending sort by area puts it: after the larger ones, before its equals
insert_by_area(x, s) ==
    IF s = <<>> THEN <<x>>
    ELSE IF area(Head(s)) > area(x) THEN <<Head(s)>> \o insert_by_area(x, Tail(s))
    ELSE <<x>> \o s

RECURSIVE sort_items(_)
\* sorted(items, key=lambda x: x.length * x.height, reverse=True)
sort_items(s) ==
    IF s = <<>> THEN <<>> ELSE insert_by_area(Head(s), sort_items(Tail(s)))

\* key (cost, -(length * height)) of y is strictly less than that of x
template_before(y, x) ==
    y.cost < x.cost \/ (y.cost = x.cost /\ area(y) > area(x))

RECURSIVE insert_template(_, _)
insert_template(x, s) ==
    IF s = <<>> THEN <<x>>
    ELSE IF template_before(Head(s), x) THEN <<Head(s)>> \o insert_template(x, Tail(s))
    ELSE <<x>> \o s

RECURSIVE sort_templates(_)
\* sorted(available, key=lambda b: (b.cost, -(b.length * b.height)))
sort_templates(s) ==
    IF s = <<>> THEN <<>> ELSE insert_template(Head(s), sort_templates(Tail(s)))

\* [b for b in s if keep(b)], for the two filters of run_packing
bins_with_cut(s) == SelectSeq(s, has_cut)

no_cut(bin) == ~has_cut(bin)

bins_no_cut(s) == SelectSeq(s, no_cut)

RECURSIVE list_remove(_, _)
\* list.remove: drops the first occurrence
list_remove(s, e) ==
    IF s = <<>> THEN <<>>
    ELSE IF Head(s) = e THEN Tail(s)
    ELSE <<Head(s)>> \o list_remove(Tail(s), e)

\* best_packer_id = None, best_merit = float('inf'); packer ids are 1-based here
NoPacker == [best_packer_id |-> 0, best_placement |-> NoResult, best_merit |-> 0, inf |-> TRUE]

\* the loop body without the comparison merit < best_merit: the last packer
\* with a result wins
consider_packer_last_wins(packers, item, pid, result, acc) ==
    IF ~result.found THEN acc
    ELSE [best_packer_id |-> pid, best_placement |-> result,
          best_merit |-> 0, inf |-> FALSE]

\* the body of the loop over open_packers for packer pid and its result
consider_packer(packers, item, pid, result, acc) ==
    IF ~result.found THEN acc
    ELSE LET RS == _calculate_residual_space(packers[pid], result.x, result.y)
             w == IF result.rotated THEN item.height ELSE item.length
             h == IF result.rotated THEN item.length ELSE item.height
             merit == (RS[1] - w) + (RS[2] - h)
         IN IF acc.inf \/ merit < acc.best_merit
            THEN [best_packer_id |-> pid, best_placement |-> result,
                  best_merit |-> merit, inf |-> FALSE]
            ELSE acc

RECURSIVE select_loop(_, _, _, _)
\* the loop over open_packers up to packer k: every (best_packer_id, best_placement)
\* it may end with; skip_cut is the has_cut() filter of phase 2
select_loop(packers, item, skip_cut, k) ==
    IF k = 0 THEN {NoPacker}
    ELSE LET prev == select_loop(packers, item, skip_cut, k - 1)
         IN IF (skip_cut /\ has_cut(packers[k].bin)) \/ ~check_compatibility(packers[k], item)
            THEN prev
            ELSE UNION {{consider_packer(packers, item, k, r, acc) :
                            r \in FindResults(packers[k], item)} : acc \in prev}

NotOpened == [opened |-> FALSE, template |-> Bin(0, 0, 0, 0, 0, 0),
              packer |-> BinPacker(Bin(0, 0, 0, 0, 0, 0), FALSE)]

RECURSIVE open_loop(_, _, _, _)
\* the loop over the sorted templates from template k on: the first whose fresh
\* packer takes the item is opened
open_loop(templates, item, pack_right_to_left, k) ==
    IF k > Len(templates) THEN {NotOpened}
    ELSE LET packer == BinPacker(templates[k], pack_right_to_left)
         IN UNION {IF r.found
                   THEN {[opened |-> TRUE, template |-> templates[k],
                          packer |-> place_item(packer, item, r.x, r.y, r.rotated)]}
                   ELSE open_loop(templates, item, pack_right_to_left, k + 1) :
                   r \in FindResults(packer, item)}

\* the state of run_packing as one record
RunState(q, pcv, op, awc, anc, rem, unp) ==
    [pc |-> pcv, queue |-> q, open_packers |-> op, available_with_cut |-> awc,
     available_no_cut |-> anc, remaining_items |-> rem, unplaced |-> unp]

\* the state on entering the phase 1 loop
StartState(its, bs) ==
    RunState(sort_items(its), "phase1", <<>>, bins_with_cut(bs), <<>>, <<>>, <<>>)

\* phase 1 appending to unplaced, which the end of phase 1 resets
not_placed_to_unplaced(st, item, phase2) == [st EXCEPT !.unplaced = Append(@, item)]

\* if not placed: remaining_items.append(item) in phase 1, unplaced.append(item) in phase 2
not_placed(st, item, phase2) ==
    IF phase2
    THEN [st EXCEPT !.unplaced = Append(@, item)]
    ELSE [st EXCEPT !.remaining_items = Append(@, item)]

\* one iteration of the phase 1 or phase 2 loop, for the item at the head of the
\* queue: every outcome, tagged with the branch taken
item_step(st) ==
    LET item == Head(st.queue)
        phase2 == st.pc = "phase2"
        n == Len(st.open_packers)
        available == IF phase2 THEN st.available_no_cut ELSE st.available_with_cut
        rest == [st EXCEPT !.queue = Tail(@)]
        place(sel) ==
            [rest EXCEPT !.open_packers[sel.best_packer_id] =
                place_item(@, item, sel.best_placement.x, sel.best_placement.y,
                           sel.best_placement.rotated)]
        open(o) ==
            LET opened == [rest EXCEPT !.open_packers = Append(@, o.packer)]
            IN IF phase2
               THEN [opened EXCEPT !.available_no_cut = list_remove(@, o.template)]
               ELSE [opened EXCEPT !.available_with_cut = list_remove(@, o.template)]
        drop == not_placed(rest, item, phase2)
    IN UNION {IF sel.best_packer_id # 0
              THEN {[branch |-> "existing", st |-> place(sel)]}
              ELSE {IF o.opened
                    THEN [branch |-> "new", st |-> open(o)]
                    ELSE [branch |-> "none", st |-> drop] :
                    o \in open_loop(sort_templates(available), item, ~phase2, 1)} :
              sel \in select_loop(st.open_packers, item, phase2, n)}

\* the end of the phase 1 loop: phase 2 starts, or is skipped
end_phase1(st, bs) ==
    IF st.remaining_items # <<>>
    THEN [st EXCEPT !.pc = "phase2", !.available_no_cut = bins_no_cut(bs),
                    !.unplaced = <<>>,
                    !.remaining_items = sort_items(st.remaining_items),
                    !.queue = sort_items(st.remaining_items)]
    ELSE [st EXCEPT !.pc = "done", !.unplaced = <<>>]

\* return open_packers, unplaced
end_phase2(st) == [st EXCEPT !.pc = "done"]

RECURSIVE run_from(_, _)
\* every state run_packing may return from st on
run_from(st, bs) ==
    IF st.pc = "done" THEN {st}
    ELSE IF st.queue # <<>> THEN UNION {run_from(o.st, bs) : o \in item_step(st)}
    ELSE IF st.pc = "phase1" THEN run_from(end_phase1(st, bs), bs)
    ELSE run_from(end_phase2(st), bs)

\* every (open_packers, unplaced) run_packing(items, bins) may return
run_packing(its, bs) == run_from(StartState(its, bs), bs)

----------------------------------------------------------------------------
(* Inputs *)

Kind(length, height, rotate, fragile, perishable, radioactive) ==
    [length |-> length, height |-> height, rotate |-> rotate, fragile |-> fragile,
     perishable |-> perishable, radioactive |-> radioactive]

\* Item(i, v[0], v[1], v[2], v[3], v[4], v[5])
MakeItem(ID, k) ==
    Item(ID, k.length, k.height, k.rotate, k.fragile, k.perishable, k.radioactive)

\* two cut containers and two pallets
YardBins == <<Bin(0, 6, 3, 2, 2, 2), Bin(1, 3, 2, 1, 1, 1),
              Bin(2, 3, 3, 1, 0, 0), Bin(3, 4, 3, 1, 0, 0)>>

YardKinds == {Kind(3, 2, 0, 0, 0, 0), Kind(6, 1, 0, 0, 0, 0), Kind(1, 2, 0, 1, 0, 0),
              Kind(2, 2, 1, 0, 1, 0), Kind(1, 1, 0, 0, 0, 1), Kind(2, 1, 1, 0, 0, 0),
              Kind(1, 1, 0, 0, 1, 1), Kind(1, 3, 0, 0, 0, 0)}

\* pallets only
DockBins == <<Bin(0, 3, 3, 2, 0, 0), Bin(1, 2, 2, 1, 0, 0)>>

DockKinds == {Kind(2, 2, 0, 0, 0, 0), Kind(1, 1, 0, 0, 0, 0), Kind(2, 1, 1, 1, 0, 0),
              Kind(1, 2, 0, 0, 0, 0), Kind(1, 1, 0, 0, 1, 0), Kind(1, 1, 0, 0, 0, 1)}

\* one large cut container, where a * b exceeds 1000
HangarBins == <<Bin(0, 35, 32, 1, 33, 32)>>

HangarKinds == {Kind(2, 31, 0, 0, 0, 0), Kind(34, 1, 0, 0, 0, 0), Kind(2, 30, 0, 0, 0, 0),
                Kind(33, 1, 0, 0, 0, 0), Kind(2, 1, 1, 0, 0, 0)}

Scenarios == {[bins |-> YardBins, kinds |-> YardKinds],
              [bins |-> DockBins, kinds |-> DockKinds],
              [bins |-> HangarBins, kinds |-> HangarKinds]}

\* the item lists of a scenario: IDs are the positions, from 0
ItemLists(kinds) ==
    UNION {{[i \in 1..n |-> MakeItem(i - 1, ks[i])] : ks \in [1..n -> kinds]} :
           n \in 1..MaxItems}

----------------------------------------------------------------------------
(* The run as a state machine *)

CurState ==
    RunState(queue, pc, open_packers, available_with_cut, available_no_cut,
             remaining_items, unplaced)

SetState(st) ==
    /\ pc' = st.pc
    /\ queue' = st.queue
    /\ open_packers' = st.open_packers
    /\ available_with_cut' = st.available_with_cut
    /\ available_no_cut' = st.available_no_cut
    /\ remaining_items' = st.remaining_items
    /\ unplaced' = st.unplaced

InState(st) ==
    /\ pc = st.pc
    /\ queue = st.queue
    /\ open_packers = st.open_packers
    /\ available_with_cut = st.available_with_cut
    /\ available_no_cut = st.available_no_cut
    /\ remaining_items = st.remaining_items
    /\ unplaced = st.unplaced

Init ==
    /\ \E sc \in Scenarios :
          /\ bins = sc.bins
          /\ items \in ItemLists(sc.kinds)
    /\ InState(StartState(items, bins))
    /\ perm_items = items
    /\ geom_a = {}
    /\ geom_b = {}
    /\ perm_pc = "idle"

Phase1PlaceExisting ==
    /\ pc = "phase1"
    /\ queue # <<>>
    /\ \E o \in item_step(CurState) :
          /\ o.branch = "existing"
          /\ SetState(o.st)
    /\ UNCHANGED <<items, bins, perm_vars>>

Phase1OpenNew ==
    /\ pc = "phase1"
    /\ queue # <<>>
    /\ \E o \in item_step(CurState) :
          /\ o.branch = "new"
          /\ SetState(o.st)
    /\ UNCHANGED <<items, bins, perm_vars>>

Phase1CarryOver ==
    /\ pc = "phase1"
    /\ queue # <<>>
    /\ \E o \in item_step(CurState) :
          /\ o.branch = "none"
          /\ SetState(o.st)
    /\ UNCHANGED <<items, bins, perm_vars>>

StartPhase2 ==
    /\ pc = "phase1"
    /\ queue = <<>>
    /\ remaining_items # <<>>
    /\ SetState(end_phase1(CurState, bins))
    /\ UNCHANGED <<items, bins, perm_vars>>

SkipPhase2 ==
    /\ pc = "phase1"
    /\ queue = <<>>
    /\ remaining_items = <<>>
    /\ SetState(end_phase1(CurState, bins))
    /\ UNCHANGED <<items, bins, perm_vars>>

Phase2PlaceExisting ==
    /\ pc = "phase2"
    /\ queue # <<>>
    /\ \E o \in item_step(CurState) :
          /\ o.branch = "existing"
          /\ SetState(o.st)
    /\ UNCHANGED <<items, bins, perm_vars>>

Phase2OpenNew ==
    /\ pc = "phase2"
    /\ queue # <<>>
    /\ \E o \in item_step(CurState) :
          /\ o.branch = "new"
          /\ SetState(o.st)
    /\ UNCHANGED <<items, bins, perm_vars>>

Phase2Unplaced ==
    /\ pc = "phase2"
    /\ queue # <<>>
    /\ \E o \in item_step(CurState) :
          /\ o.branch = "none"
          /\ SetState(o.st)
    /\ UNCHANGED <<items, bins, perm_vars>>

Return ==
    /\ pc = "phase2"
    /\ queue = <<>>
    /\ SetState(end_phase2(CurState))
    /\ UNCHANGED <<items, bins, perm_vars>>

Next ==
    \/ Phase1PlaceExisting
    \/ Phase1OpenNew
    \/ Phase1CarryOver
    \/ StartPhase2
    \/ SkipPhase2
    \/ Phase2PlaceExisting
    \/ Phase2OpenNew
    \/ Phase2Unplaced
    \/ Return

Spec == Init /\ [][Next]_vars

----------------------------------------------------------------------------
(* Properties *)

PackerIds == 1..Len(open_packers)

PlacedIds(k) == 1..Len(open_packers[k].placed_items)

PlacedAt(k, i) == open_packers[k].placed_items[i]

\* C1: no two placed items of one opened container overlap: the open interiors
\* of any two distinct placed rectangles are disjoint (touching edges allowed)
NoOverlap ==
    \A k \in PackerIds : \A i, j \in PlacedIds(k) :
        i # j =>
            LET r == PlacedAt(k, i)
                q == PlacedAt(k, j)
            IN ~(r.x < q.x2 /\ q.x < r.x2 /\ r.y < q.y2 /\ q.y < r.y2)

\* two placed items of one container share a vertical edge and two share a horizontal one
NoOverlapWitness ==
    \E k \in PackerIds : \E i, j, m, n \in PlacedIds(k) :
        /\ PlacedAt(k, i).x2 = PlacedAt(k, j).x
        /\ PlacedAt(k, i).y < PlacedAt(k, j).y2 /\ PlacedAt(k, j).y < PlacedAt(k, i).y2
        /\ PlacedAt(k, m).y2 = PlacedAt(k, n).y
        /\ PlacedAt(k, m).x < PlacedAt(k, n).x2 /\ PlacedAt(k, n).x < PlacedAt(k, m).x2

\* C2: in every returned configuration no placed item has its bottom edge within
\* 0.001 of the top edge of a fragile placed item of the same container while their
\* horizontal spans overlap, whichever of the two was committed first
NothingOnFragile ==
    pc = "done" =>
        \A k \in PackerIds : \A i, j \in PlacedIds(k) :
            i # j =>
                LET upper == PlacedAt(k, i)
                    lower == PlacedAt(k, j)
                IN ~(/\ lower.item.fragile = 1
                     /\ 1000 * Abs(upper.y - lower.y2) < 1
                     /\ upper.x < lower.x2 /\ lower.x < upper.x2)

\* C3 as stated: no opened container holds an item with perishable = 1 and an
\* item with radioactive = 1
NoPerishableWithRadioactive ==
    \A k \in PackerIds :
        ~(/\ \E i \in PlacedIds(k) : PlacedAt(k, i).item.perishable = 1
          /\ \E j \in PlacedIds(k) : PlacedAt(k, j).item.radioactive = 1)

\* C3 as amended: no opened container holds two different items of which one has
\* perishable = 1 and the other radioactive = 1
NoPerishableWithOtherRadioactive ==
    \A k \in PackerIds : \A i, j \in PlacedIds(k) :
        i # j => ~(PlacedAt(k, i).item.perishable = 1 /\ PlacedAt(k, j).item.radioactive = 1)

\* a perishable and a radioactive item were committed in the same phase, to two
\* containers, the second of them opened for the later item
CompatibilityWitness ==
    \E k, l \in PackerIds :
        /\ k # l
        /\ has_cut(open_packers[k].bin) = has_cut(open_packers[l].bin)
        /\ \E i \in PlacedIds(k) : PlacedAt(k, i).item.perishable = 1
        /\ PlacedAt(l, 1).item.radioactive = 1
        /\ PlacedAt(l, 1).item.perishable = 0

\* the cut line's height at cx is b * (1 - cx / a); |cy - it| < 1.0, times a
NearCutLine(bin, cx, cy) ==
    /\ has_cut(bin) /\ 0 <= cx /\ cx <= bin.a
    /\ Abs(cy * bin.a - bin.b * (bin.a - cx)) < bin.a

OnGround(bin, cx, cy) == Abs(cy) < 1 /\ ~(has_cut(bin) /\ cx < bin.a)

OnItem(q, cx, cy) ==
    /\ Abs(cy - q.y2) < 1
    /\ 1000 * q.x - 1 <= 1000 * cx /\ 1000 * cx <= 1000 * q.x2 + 1

CornerSupported(k, i, cx, cy) ==
    \/ OnGround(open_packers[k].bin, cx, cy)
    \/ NearCutLine(open_packers[k].bin, cx, cy)
    \/ \E j \in PlacedIds(k) : j # i /\ OnItem(PlacedAt(k, j), cx, cy)

\* C4: both bottom corners of every placed item are supported: on the ground, on
\* the cut line or on the top edge of another placed item of the container
BottomCornersSupported ==
    \A k \in PackerIds : \A i \in PlacedIds(k) :
        /\ CornerSupported(k, i, PlacedAt(k, i).x, PlacedAt(k, i).y)
        /\ CornerSupported(k, i, PlacedAt(k, i).x2, PlacedAt(k, i).y)

\* a right-to-left container holds an item whose left corner rests on the cut line
\* alone and whose right corner rests on another item alone
SupportWitness ==
    \E k \in PackerIds : \E i \in PlacedIds(k) :
        LET bin == open_packers[k].bin
            r == PlacedAt(k, i)
        IN /\ open_packers[k].pack_right_to_left
           /\ NearCutLine(bin, r.x, r.y) /\ ~OnGround(bin, r.x, r.y)
           /\ \A j \in PlacedIds(k) : ~OnItem(PlacedAt(k, j), r.x, r.y)
           /\ ~NearCutLine(bin, r.x2, r.y) /\ ~OnGround(bin, r.x2, r.y)

\* C5: every placed item lies within its container: 0 <= x, 0 <= y,
\* x2 <= length, y2 <= height, in both packing modes
WithinBounds ==
    \A k \in PackerIds : \A i \in PlacedIds(k) :
        LET r == PlacedAt(k, i)
            bin == open_packers[k].bin
        IN 0 <= r.x /\ 0 <= r.y /\ r.x2 <= bin.length /\ r.y2 <= bin.height

\* a right-to-left container holds an item whose converted left edge is the left
\* wall and whose top edge is the ceiling
WithinBoundsWitness ==
    \E k \in PackerIds : \E i \in PlacedIds(k) :
        /\ open_packers[k].pack_right_to_left
        /\ PlacedAt(k, i).x = 0
        /\ PlacedAt(k, i).y2 = open_packers[k].bin.height

Corners(r) == {<<r.x, r.y>>, <<r.x2, r.y>>, <<r.x, r.y2>>, <<r.x2, r.y2>>}

\* C6 as stated: every point of every placed item lies on or above the cut line,
\* cx / a + cy / b >= 1 at each corner (the bottom-left one is the lowest)
OnOrAboveCutLine ==
    \A k \in PackerIds : \A i \in PlacedIds(k) :
        LET bin == open_packers[k].bin
        IN has_cut(bin) =>
              \A c \in Corners(PlacedAt(k, i)) : c[1] * bin.b + c[2] * bin.a >= bin.a * bin.b

\* C6 as amended: no corner of a placed item has cx / a + cy / b < 1 - 0.001
AboveCutLineWithinTolerance ==
    \A k \in PackerIds : \A i \in PlacedIds(k) :
        LET bin == open_packers[k].bin
        IN has_cut(bin) =>
              \A c \in Corners(PlacedAt(k, i)) :
                  1000 * (c[1] * bin.b + c[2] * bin.a) >= 999 * bin.a * bin.b

\* a cut container holds an item with a corner below the cut line by less than
\* the tolerance: 1 - 0.001 <= cx / a + cy / b < 1
CutLineWitness ==
    \E k \in PackerIds : \E i \in PlacedIds(k) :
        LET bin == open_packers[k].bin
            r == PlacedAt(k, i)
        IN /\ has_cut(bin)
           /\ r.x * bin.b + r.y * bin.a < bin.a * bin.b
           /\ 1000 * (r.x * bin.b + r.y * bin.a) >= 999 * bin.a * bin.b

\* how many times an item occurs in a sequence of items
RECURSIVE Occurrences(_, _)
Occurrences(s, e) ==
    IF s = <<>> THEN 0
    ELSE (IF Head(s) = e THEN 1 ELSE 0) + Occurrences(Tail(s), e)

RECURSIVE PlacedOccurrences(_, _)
\* how many placed items of the containers 1..k are the item e
PlacedOccurrences(k, e) ==
    IF k = 0 THEN 0
    ELSE Cardinality({i \in PlacedIds(k) : PlacedAt(k, i).item = e})
         + PlacedOccurrences(k - 1, e)

RECURSIVE PlacedCount(_)
PlacedCount(k) ==
    IF k = 0 THEN 0 ELSE Len(open_packers[k].placed_items) + PlacedCount(k - 1)

\* C7: when run_packing returns, every input item is exactly one placed item of
\* one container or occurs exactly once in unplaced, and placed + unplaced = input
EveryItemOnce ==
    pc = "done" =>
        /\ \A n \in 1..Len(items) :
              PlacedOccurrences(Len(open_packers), items[n]) + Occurrences(unplaced, items[n]) = 1
        /\ PlacedCount(Len(open_packers)) + Len(unplaced) = Len(items)

\* a run of both phases returned placed items of both phases and an unplaced item
EveryItemOnceWitness ==
    /\ pc = "done"
    /\ unplaced # <<>>
    /\ \E k, l \in PackerIds : has_cut(open_packers[k].bin) /\ ~has_cut(open_packers[l].bin)

\* the packers find_best_ep is called on for the item at the head of the queue:
\* the open packers the loop does not skip, and the fresh packers of the templates
CallPackers ==
    IF pc \notin {"phase1", "phase2"} \/ queue = <<>> THEN {}
    ELSE {open_packers[k] : k \in {n \in PackerIds :
              /\ ~(pc = "phase2" /\ has_cut(open_packers[n].bin))
              /\ check_compatibility(open_packers[n], Head(queue))}}
         \cup {BinPacker(t, pc = "phase1") :
                  t \in Range(IF pc = "phase1" THEN available_with_cut ELSE available_no_cut)}

\* the pairs (extreme point, allowed orientation) that pass _check_placement
Candidates(p, item) ==
    {c \in p.extreme_points \X BOOLEAN :
        /\ c[2] => item.rotate = 1
        /\ _check_placement(p, item, c[1][1], c[1][2], c[2])}

\* (residualWidth - placedWidth) + (residualHeight - placedHeight) at the point
Merit(p, item, ep, rotated) ==
    LET RS == _calculate_residual_space(p, ep[1], ep[2])
        w == IF rotated THEN item.height ELSE item.length
        h == IF rotated THEN item.length ELSE item.height
    IN (RS[1] - w) + (RS[2] - h)

LexLeq(u, v) == u[1] < v[1] \/ (u[1] = v[1] /\ u[2] <= v[2])

\* C9: among feasible candidates of equal minimum merit find_best_ep returns the
\* one whose extreme point is lexicographically smallest by (x, y), whatever the
\* order in which the extreme points are iterated
TieBreakIsLexicographic ==
    \A p \in CallPackers : \A o \in Perms(p.extreme_points) :
        LET item == Head(queue)
            r == find_best_ep(p, item, o)
        IN r.found =>
              \A c \in Candidates(p, item) :
                  Merit(p, item, c[1], c[2]) = Merit(p, item, <<r.x, r.y>>, r.rotated)
                      => LexLeq(<<r.x, r.y>>, c[1])

----------------------------------------------------------------------------
(* Two runs on inputs that differ by a permutation of equal-area items *)

\* the rectangles of a returned configuration, each with its container's ID
Geometry(st) ==
    UNION {{<<st.open_packers[k].bin.ID, r.x, r.y, r.width, r.height>> :
               r \in Range(st.open_packers[k].placed_items)} :
           k \in 1..Len(st.open_packers)}

\* the geometries run_packing(its, bs) may return
Geometries(its, bs) == {Geometry(st) : st \in run_packing(its, bs)}

\* the lists that differ from its only by permuting items of equal area
EqualAreaPermutations(its) ==
    {[i \in 1..Len(its) |-> its[f[i]]] :
        f \in {g \in [1..Len(its) -> 1..Len(its)] :
                  /\ \A i, j \in 1..Len(its) : i # j => g[i] # g[j]
                  /\ \A i \in 1..Len(its) : area(its[g[i]]) = area(its[i])}}

InitPerm ==
    /\ \E sc \in Scenarios :
          /\ bins = sc.bins
          /\ items \in ItemLists(sc.kinds)
    /\ InState(StartState(items, bins))
    /\ perm_items \in EqualAreaPermutations(items)
    /\ geom_a = {}
    /\ geom_b = {}
    /\ perm_pc = "start"

\* run_packing(items, bins)
RunOriginal ==
    /\ perm_pc = "start"
    /\ geom_a' = Geometries(items, bins)
    /\ perm_pc' = "first"
    /\ UNCHANGED <<run_vars, perm_items, geom_b>>

\* run_packing on the permuted list
RunPermuted ==
    /\ perm_pc = "first"
    /\ geom_b' = Geometries(perm_items, bins)
    /\ perm_pc' = "compared"
    /\ UNCHANGED <<run_vars, perm_items, geom_a>>

NextPerm ==
    \/ RunOriginal
    \/ RunPermuted

SpecPerm == InitPerm /\ [][NextPerm]_vars

\* C10: two inputs that differ only by permuting items of equal area get the
\* same placement geometry. Each run returns one of the geometries its
\* iteration orders allow, so the two runs can agree only if the two sets meet
SameGeometryUnderPermutation ==
    perm_pc = "compared" => geom_a \cap geom_b # {}

----------------------------------------------------------------------------
(* The choice of the container for the item in turn *)

\* an item is in turn in one of the two phases
ItemInTurn == pc \in {"phase1", "phase2"} /\ queue # <<>>

\* the open containers of the current phase: cut ones in phase 1, pallets in phase 2
PhasePackers == {k \in PackerIds : has_cut(open_packers[k].bin) <=> pc = "phase1"}

\* the contents of p hold a radioactive item and item is perishable, or the reverse
ConflictsWith(p, item) ==
    \/ item.perishable = 1 /\ \E r \in Range(p.placed_items) : r.item.radioactive = 1
    \/ item.radioactive = 1 /\ \E r \in Range(p.placed_items) : r.item.perishable = 1

\* the open, compatible containers of the phase that offer a feasible placement
Accepting ==
    {k \in PhasePackers :
        /\ ~ConflictsWith(open_packers[k], Head(queue))
        /\ Candidates(open_packers[k], Head(queue)) # {}}

\* the lowest merit among the feasible candidates of open container k
BestMerit(k) ==
    LET ms == {Merit(open_packers[k], Head(queue), c[1], c[2]) :
                  c \in Candidates(open_packers[k], Head(queue))}
    IN CHOOSE m \in ms : \A other \in ms : m <= other

\* the templates of the phase not opened yet
UnusedTemplates == IF pc = "phase1" THEN available_with_cut ELSE available_no_cut

\* a fresh frontier of template t accepts the item in turn
FreshAccepts(t) == Candidates(BinPacker(t, pc = "phase1"), Head(queue)) # {}

\* u comes before t in the order cost ascending, then area descending
TriedBefore(u, t) ==
    u.cost < t.cost \/ (u.cost = t.cost /\ u.length * u.height > t.length * t.height)

\* the item in turn is the last placed item of packer k after the step
CommittedTo(k) ==
    LET before == open_packers[k].placed_items
        after == open_packers'[k].placed_items
    IN /\ Len(after) = Len(before) + 1
       /\ after[Len(after)].item = Head(queue)
       /\ \A j \in PackerIds \ {k} : open_packers'[j] = open_packers[j]

\* when an open container accepts, the item goes to one of lowest best merit and
\* no container is opened
UsesOpenContainer ==
    Accepting # {} =>
        /\ Len(open_packers') = Len(open_packers)
        /\ available_with_cut' = available_with_cut
        /\ available_no_cut' = available_no_cut
        /\ \E k \in Accepting :
              /\ \A j \in Accepting : BestMerit(k) <= BestMerit(j)
              /\ CommittedTo(k)

\* a container is opened only when no open one accepts; its template was unused,
\* accepts the item on a fresh frontier, follows no accepting template in the
\* order, and is unused no longer
OpensOnlyWhenNeeded ==
    Len(open_packers') # Len(open_packers) =>
        LET n == Len(open_packers) + 1
            t == open_packers'[n].bin
        IN /\ Len(open_packers') = n
           /\ Accepting = {}
           /\ t \in Range(UnusedTemplates)
           /\ \A j \in PackerIds : open_packers[j].bin # t /\ open_packers'[j] = open_packers[j]
           /\ FreshAccepts(t)
           /\ \A u \in Range(UnusedTemplates) : TriedBefore(u, t) => ~FreshAccepts(u)
           /\ Len(open_packers'[n].placed_items) = 1
           /\ open_packers'[n].placed_items[1].item = Head(queue)
           /\ open_packers'[n].pack_right_to_left = (pc = "phase1")
           /\ t \notin Range(IF pc = "phase1" THEN available_with_cut' ELSE available_no_cut')

\* C11: in each phase, for the item in turn: if an open, compatible container of
\* the phase offers a feasible placement the item is committed to an open
\* container of lowest best merit and none is opened; a template is opened, at
\* most once and in the order cost ascending then area descending, only when no
\* open container accepts the item and its fresh frontier does
ContainerChoice ==
    [][ItemInTurn => UsesOpenContainer /\ OpensOnlyWhenNeeded]_vars

\* two open containers of the phase accept the item in turn with different best
\* merits
ContainerChoiceWitness ==
    /\ ItemInTurn
    /\ \E k, j \in Accepting : BestMerit(k) < BestMerit(j)

====
